---- MODULE Spec2Model ----
(***************************************************************************)
(* d3d11-glyph: the brush (src/src/lib.rs), its pipeline                   *)
(* (src/src/pipeline.rs) and its glyph atlas (src/src/cache.rs) as a state *)
(* machine.  One draw_queued* call runs process_queued (the engine step,   *)
(* the TextureTooSmall resize-retry loop, the vertex upload) and then the  *)
(* pipeline draw.  The layout engine (crate glyph_brush) and the D3D11     *)
(* driver are the environment: the engine's outcome and the driver's       *)
(* success or failure are chosen nondeterministically at each call.        *)
(***************************************************************************)
EXTENDS Integers, FiniteSets, Sequences, TLC

\* ------------------------------------------------------------------ bounds
\* Number of distinct glyphs that are queued; each has a region of the atlas.
NGlyphs == 2
\* Texture sizes range from one texel below MaxImageDimension up to
\* MaxImageDimension + SizeSlack.
SizeSlack == 1
\* Pixel and bounds coordinates of a glyph vertex range over 0..MaxCoord.
MaxCoord == 3
\* Texture coordinates range over 0, 1/MaxTex, .. , 1.
MaxTex == 1

\* ------------------------------------------------------- program constants
\* D3D11_REQ_TEXTURE2D_U_OR_V_DIMENSION, bound to max_image_dimension.
MaxImageDimension == 16384
\* The capacity of the vertex buffer that build creates.
InitialCapacity == 1024

\* ------------------------------------------------------------------ domains
Sizes == (MaxImageDimension - 1)..(MaxImageDimension + SizeSlack)
Dims == Sizes \X Sizes
Glyphs == 1..NGlyphs
Slots == 1..NGlyphs
Blank == 0
\* What a texture created without initial data may hold where nothing was
\* written: zeroes, or bytes that are no glyph's bitmap.
Garbage == -1
Texel == {Blank, Garbage} \cup Glyphs
FreshTextures == {[s \in Slots |-> v] : v \in {Blank, Garbage}}
\* The sections that are queued: section g is a run of glyph g; the run of
\* glyph 2 fills the initial vertex buffer exactly, the others are one glyph
\* long.
RunLength(g) == IF g = 2 THEN InitialCapacity ELSE 1
RECURSIVE Instances(_)
Instances(gs) ==
    IF gs = {}
    THEN 0
    ELSE LET g == CHOOSE x \in gs : TRUE
         IN  RunLength(g) + Instances(gs \ {g})
\* [f32; 16] values: IDENTITY_MATRIX, an orthographic projection, and a
\* matrix that holds a NaN.
Transforms == {"identity", "ortho", "nan"}
IDENTITY_MATRIX == "identity"
NoDims == <<0, 0>>
NoDraw == {0}
EmptyQueue == {}
NoVerts == [n |-> 0, refs |-> {}]
BlankTex == [s \in Slots |-> Blank]
NoConv == <<>>
\* Option<D3D11_RECT>: None, or a rect smaller than the render target.
NoRect == "none"
Rects == {NoRect, "rect"}
\* GlyphBrushBuilder.depth: (), or a D3D11_DEPTH_STENCIL_DESC given to
\* depth_stencil_state.
BuilderDepths == {"unit", "desc"}

VARIABLES
    pc,             \* where the current draw_queued* call stands
    queued,         \* glyph_brush: the sections queued for the next process_queued
    lastDraw,       \* glyph_brush: the sections of its last Draw outcome
    cpuDims,        \* glyph_brush.texture_dimensions()
    cpuTex,         \* glyph_brush: what its draw cache holds in each atlas region
    gpuDims,        \* Cache.texture: Width, Height
    gpuTex,         \* Cache.texture: the texels of each atlas region
    vb,             \* Pipeline.vertex_buffer: capacity, len, its first len records,
                    \* and the number of records written into the buffer object
    transform,      \* Pipeline.transform
    transformBuf,   \* the matrix held in Pipeline.transform_buf
    call,           \* the arguments and locals of the current call
    obs,            \* what the current call has done so far, and its return value
    builder,        \* GlyphBrushBuilder.depth of the builder the brush was asked of
    uploaded,       \* history: the record count of the last Draw outcome whose
                    \* upload succeeded
    conv            \* a GlyphVertex and the Vertex made from it

vars == <<pc, queued, lastDraw, cpuDims, cpuTex, gpuDims, gpuTex, vb,
          transform, transformBuf, call, obs, builder, uploaded, conv>>

engineVars == <<queued, lastDraw, cpuDims, cpuTex>>
cacheVars == <<gpuDims, gpuTex>>
transformVars == <<transform, transformBuf>>
buildVars == <<builder, conv>>

\* obs: result is the call's outcome ("ok", "err", "panic"), failedAt the
\* driver call that failed, arg the transform given to the pipeline draw, drew
\* whether DrawInstanced was issued, tmaps the number of Map calls on
\* transform_buf, created whether upload replaced the vertex buffer by a new
\* buffer object, resized whether the atlas was resized in this call,
\* requested the size last passed to Cache::new by increase_cache_size,
\* clamped whether that size was not the suggested one, uploads the number of
\* Pipeline::upload calls, vmaps the number of Map calls on the vertex buffer,
\* bound whether the pipeline state was set on the context, depth the
\* depth/stencil state given to OMSetDepthStencilState, rect the scissor rect
\* given to the draw, scissor the rect the draw was clipped to, vertices and
\* instances the counts given to DrawInstanced.
NoObs ==
    [result |-> "none", failedAt |-> "none", arg |-> IDENTITY_MATRIX,
     drew |-> FALSE, tmaps |-> 0, created |-> FALSE, resized |-> FALSE,
     requested |-> NoDims, clamped |-> FALSE, uploads |-> 0, vmaps |-> 0,
     bound |-> FALSE, depth |-> "none", rect |-> NoRect, scissor |-> NoRect,
     vertices |-> 0, instances |-> 0]

\* call: suggested is the payload of the TextureTooSmall being handled, action
\* the BrushAction the loop broke with, verts the payload of a Draw outcome.
NoCall == [suggested |-> NoDims, action |-> "none", verts |-> NoVerts]

\* --------------------------------------------------------------- the driver
\* ID3D11Device::CreateTexture2D rejects a texture wider or higher than the
\* device maximum; below it, creation may still fail (out of memory).
CacheNewCanSucceed(d) == d[1] <= MaxImageDimension /\ d[2] <= MaxImageDimension

\* ----------------------------------------------------------------- helpers
\* f32 array comparison `transform != pipeline.transform`: element-wise IEEE
\* comparison, so a matrix that holds a NaN differs from every matrix.
TransformNe(a, b) == a # b \/ a = "nan" \/ b = "nan"

\* The glyphs the draw cache holds.
CachedGlyphs(tex) == {tex[s] : s \in Slots} \ {Blank}
\* The region the draw cache gives glyph g.
SlotOf(g) == g
MinOf(S) == CHOOSE x \in S : \A y \in S : x <= y

\* The draw cache after it has placed every glyph of gs it does not hold yet.
CacheQueued(tex, gs) ==
    [s \in Slots |-> IF \E g \in gs : SlotOf(g) = s
                     THEN CHOOSE g \in gs : SlotOf(g) = s
                     ELSE tex[s]]

\* Cache::update: UpdateSubresource writes data into the region rect.
CacheUpdate(tex, rect, data) == [tex EXCEPT ![rect] = data]

\* Pipeline::update_cache forwards to Cache::update.
update_cache(tex, rect, data) == CacheUpdate(tex, rect, data)

\* The GPU atlas after the update callback ran for every region the draw
\* cache has just filled.
RECURSIVE UploadRegions(_, _, _)
UploadRegions(gpu, cpu, rects) ==
    IF rects = {}
    THEN gpu
    ELSE LET r == MinOf(rects)
         IN  UploadRegions(update_cache(gpu, r, cpu[r]), cpu, rects \ {r})

\* The vertices of a Draw outcome: one record per queued glyph instance, each
\* with the texture rectangle of its glyph.
DrawVerts(q) ==
    [n |-> Instances(q), refs |-> {<<g, SlotOf(g)>> : g \in q}]

\* Faulty variant: clamps whenever the suggestion exceeds the maximum, also when the
\* atlas is already at the maximum.
NewSize_AlwaysClamp(suggested, cur) ==
    IF suggested[1] > MaxImageDimension \/ suggested[2] > MaxImageDimension
    THEN <<MaxImageDimension, MaxImageDimension>>
    ELSE suggested

\* Faulty variant: clamps only when the atlas is below the maximum in both axes.
NewSize_BothBelow(suggested, cur) ==
    IF (suggested[1] > MaxImageDimension \/ suggested[2] > MaxImageDimension)
       /\ (cur[1] < MaxImageDimension /\ cur[2] < MaxImageDimension)
    THEN <<MaxImageDimension, MaxImageDimension>>
    ELSE suggested

\* Faulty variant: never clamps.
NewSize_Verbatim(suggested, cur) == suggested

\* process_queued's choice of the new atlas size on TextureTooSmall.
NewSize(suggested, cur) ==
    IF (suggested[1] > MaxImageDimension \/ suggested[2] > MaxImageDimension)
       /\ (cur[1] < MaxImageDimension \/ cur[2] < MaxImageDimension)
    THEN <<MaxImageDimension, MaxImageDimension>>
    ELSE suggested

\* The size process_queued passes to pipeline.increase_cache_size.
IncreaseCacheSizeArgs(new, suggested) == new

\* Faulty variant: the engine is told the suggested size, not the chosen one.
ResizeTextureArgs_Suggested(new, suggested) == suggested

\* The size process_queued passes to glyph_brush.resize_texture.
ResizeTextureArgs(new, suggested) == new

\* Faulty variant: the capacity asked for is rounded down to a whole number of
\* initial capacities.
create_vertex_buffer_Rounded(capacity) ==
    [capacity |-> capacity - (capacity % InitialCapacity), len |-> 0,
     refs |-> {}, written |-> 0]

\* Pipeline::create_vertex_buffer: a new buffer of exactly `capacity` records,
\* logical length 0, contents not yet written.
create_vertex_buffer(capacity) ==
    [capacity |-> capacity, len |-> 0, refs |-> {}, written |-> 0]

\* Faulty variant: the buffer is reallocated whenever the record count differs from
\* the capacity, so it shrinks to fit.
upload_Refit(b, vertices, createOk, mapOk) ==
    IF vertices.n = 0
    THEN [vb |-> [b EXCEPT !.len = 0, !.refs = {}], res |-> "ok",
          created |-> FALSE, maps |-> 0]
    ELSE IF vertices.n # b.capacity /\ ~createOk
    THEN [vb |-> b, res |-> "vbcreate", created |-> FALSE, maps |-> 0]
    ELSE LET grow == vertices.n # b.capacity
             b1 == IF grow THEN create_vertex_buffer(vertices.n) ELSE b
         IN  IF ~mapOk
             THEN [vb |-> b1, res |-> "vbmap", created |-> grow, maps |-> 1]
             ELSE [vb |-> [b1 EXCEPT !.refs = vertices.refs,
                                     !.written = vertices.n,
                                     !.len = vertices.n],
                   res |-> "ok", created |-> grow, maps |-> 1]

\* Faulty variant: an empty record sequence is not returned early; it is mapped
\* and copied like any other.
upload_MapEmpty(b, vertices, createOk, mapOk) ==
    IF vertices.n > b.capacity /\ ~createOk
    THEN [vb |-> b, res |-> "vbcreate", created |-> FALSE, maps |-> 0]
    ELSE LET grow == vertices.n > b.capacity
             b1 == IF grow THEN create_vertex_buffer(vertices.n) ELSE b
         IN  IF ~mapOk
             THEN [vb |-> b1, res |-> "vbmap", created |-> grow, maps |-> 1]
             ELSE [vb |-> [b1 EXCEPT !.refs = vertices.refs,
                                     !.written = vertices.n,
                                     !.len = vertices.n],
                   res |-> "ok", created |-> grow, maps |-> 1]

\* Faulty variant: the buffer is never replaced by a larger one.
upload_NoGrow(b, vertices, createOk, mapOk) ==
    IF vertices.n = 0
    THEN [vb |-> [b EXCEPT !.len = 0, !.refs = {}], res |-> "ok",
          created |-> FALSE, maps |-> 0]
    ELSE IF ~mapOk
    THEN [vb |-> b, res |-> "vbmap", created |-> FALSE, maps |-> 1]
    ELSE [vb |-> [b EXCEPT !.refs = vertices.refs,
                           !.written = IF vertices.n < b.capacity
                                       THEN vertices.n ELSE b.capacity,
                           !.len = vertices.n],
          res |-> "ok", created |-> FALSE, maps |-> 1]

\* Faulty variant: len is set to the record count before the Map.
upload_LenFirst(b, vertices, createOk, mapOk) ==
    IF vertices.n = 0
    THEN [vb |-> [b EXCEPT !.len = 0, !.refs = {}], res |-> "ok",
          created |-> FALSE, maps |-> 0]
    ELSE IF vertices.n > b.capacity /\ ~createOk
    THEN [vb |-> b, res |-> "vbcreate", created |-> FALSE, maps |-> 0]
    ELSE LET grow == vertices.n > b.capacity
             b1 == IF grow THEN create_vertex_buffer(vertices.n) ELSE b
         IN  IF ~mapOk
             THEN [vb |-> [b1 EXCEPT !.len = vertices.n], res |-> "vbmap",
                   created |-> grow, maps |-> 1]
             ELSE [vb |-> [b1 EXCEPT !.refs = vertices.refs,
                                     !.written = vertices.n,
                                     !.len = vertices.n],
                   res |-> "ok", created |-> grow, maps |-> 1]

\* Faulty variant: a failed upload leaves the buffer logically empty.
upload_ClearOnFail(b, vertices, createOk, mapOk) ==
    IF vertices.n = 0
    THEN [vb |-> [b EXCEPT !.len = 0, !.refs = {}], res |-> "ok",
          created |-> FALSE, maps |-> 0]
    ELSE IF vertices.n > b.capacity /\ ~createOk
    THEN [vb |-> [b EXCEPT !.len = 0, !.refs = {}], res |-> "vbcreate",
          created |-> FALSE, maps |-> 0]
    ELSE LET grow == vertices.n > b.capacity
             b1 == IF grow THEN create_vertex_buffer(vertices.n) ELSE b
         IN  IF ~mapOk
             THEN [vb |-> [b1 EXCEPT !.len = 0, !.refs = {}], res |-> "vbmap",
                   created |-> grow, maps |-> 1]
             ELSE [vb |-> [b1 EXCEPT !.refs = vertices.refs,
                                     !.written = vertices.n,
                                     !.len = vertices.n],
                   res |-> "ok", created |-> grow, maps |-> 1]

\* Pipeline::upload.  createOk and mapOk are the driver's answers to
\* CreateBuffer and Map.  res is "ok" or the step that failed, maps the number
\* of Map calls made; the copy writes vertices.n records into the mapped
\* buffer, and len is set after it.
upload(b, vertices, createOk, mapOk) ==
    IF vertices.n = 0
    THEN [vb |-> [b EXCEPT !.len = 0, !.refs = {}], res |-> "ok",
          created |-> FALSE, maps |-> 0]
    ELSE IF vertices.n > b.capacity /\ ~createOk
    THEN [vb |-> b, res |-> "vbcreate", created |-> FALSE, maps |-> 0]
    ELSE LET grow == vertices.n > b.capacity
             b1 == IF grow THEN create_vertex_buffer(vertices.n) ELSE b
         IN  IF ~mapOk
             THEN [vb |-> b1, res |-> "vbmap", created |-> grow, maps |-> 1]
             ELSE [vb |-> [b1 EXCEPT !.refs = vertices.refs,
                                     !.written = vertices.n,
                                     !.len = vertices.n],
                   res |-> "ok", created |-> grow, maps |-> 1]

\* Pipeline::increase_cache_size: `.unwrap()` on Cache::new's error.
increase_cache_size_failure == "panic"

\* Faulty variant: the result of process_queued is dropped and the draw follows.
DrawQueuedNext_IgnoreError(res) == "draw"

\* draw_queued_with_transform: `self.process_queued()?` returns the error;
\* on Ok the pipeline draw follows.
DrawQueuedNext(res) == IF res = "ok" THEN "draw" ELSE "idle"

\* Faulty variant: an upload is made for ReDraw as well.
MatchBrushAction_AlwaysUpload(action) == "upload"

\* process_queued's final match: Draw(verts) goes to Pipeline::upload, ReDraw
\* is Ok(()) at once.
MatchBrushAction(action) ==
    IF action = "Draw" THEN "upload" ELSE DrawQueuedNext("ok")

\* Faulty variant: the uploaded transform is not remembered in pipeline.transform.
draw_ForgetTransform(cur, buf, t, mapOk) ==
    IF TransformNe(t, cur)
    THEN IF ~mapOk
         THEN [transform |-> cur, buf |-> buf, tmaps |-> 0, bound |-> FALSE,
               drew |-> FALSE, res |-> "tmap"]
         ELSE [transform |-> cur, buf |-> t, tmaps |-> 1, bound |-> TRUE,
               drew |-> TRUE, res |-> "ok"]
    ELSE [transform |-> cur, buf |-> buf, tmaps |-> 0, bound |-> TRUE,
          drew |-> TRUE, res |-> "ok"]

\* Faulty variant: the pipeline state is bound to the context before the
\* transform is mapped.
draw_BindFirst(cur, buf, t, mapOk) ==
    IF TransformNe(t, cur)
    THEN IF ~mapOk
         THEN [transform |-> cur, buf |-> buf, tmaps |-> 0, bound |-> TRUE,
               drew |-> FALSE, res |-> "tmap"]
         ELSE [transform |-> t, buf |-> t, tmaps |-> 1, bound |-> TRUE,
               drew |-> TRUE, res |-> "ok"]
    ELSE [transform |-> cur, buf |-> buf, tmaps |-> 0, bound |-> TRUE,
          drew |-> TRUE, res |-> "ok"]

\* Faulty variant: pipeline.transform is set before the Map is tried.
draw_RememberFirst(cur, buf, t, mapOk) ==
    IF TransformNe(t, cur)
    THEN IF ~mapOk
         THEN [transform |-> t, buf |-> buf, tmaps |-> 0, bound |-> FALSE,
               drew |-> FALSE, res |-> "tmap"]
         ELSE [transform |-> t, buf |-> t, tmaps |-> 1, bound |-> TRUE,
               drew |-> TRUE, res |-> "ok"]
    ELSE [transform |-> cur, buf |-> buf, tmaps |-> 0, bound |-> TRUE,
          drew |-> TRUE, res |-> "ok"]

\* pipeline::draw, up to the binding of the pipeline state.  mapOk is the
\* driver's answer to Map on transform_buf; bound tells whether the IA, VS,
\* PS, OM and RS state was set on the context, drew whether DrawInstanced
\* was called.
draw(cur, buf, t, mapOk) ==
    IF TransformNe(t, cur)
    THEN IF ~mapOk
         THEN [transform |-> cur, buf |-> buf, tmaps |-> 0, bound |-> FALSE,
               drew |-> FALSE, res |-> "tmap"]
         ELSE [transform |-> t, buf |-> t, tmaps |-> 1, bound |-> TRUE,
               drew |-> TRUE, res |-> "ok"]
    ELSE [transform |-> cur, buf |-> buf, tmaps |-> 0, bound |-> TRUE,
          drew |-> TRUE, res |-> "ok"]

\* build: the rasterizer state is created with ScissorEnable: FALSE.
ScissorEnable == FALSE

\* build: the depth/stencil state created for the pipeline.  The argument
\* depth_stencil_state is not read; the description is always the one with
\* DepthEnable: FALSE.
BuildDepthStencilState(depth_stencil_state) == "disabled"

\* Pipeline::new: build(device, filter_mode, None, cache_width, cache_height).
PipelineDepthStencilState == BuildDepthStencilState("None")

\* draw: `if let Some(ref rect) = rect { ctx.RSSetScissorRects(1, rect) }`.
\* ctxRect is the scissor rect the device context held before.
RSSetScissorRects(ctxRect, rect) == IF rect # NoRect THEN rect ELSE ctxRect

\* The rasterizer stage: the scissor rects of the context clip the draw only
\* under a rasterizer state with ScissorEnable.
ScissorTest(enable, ctxRect) == IF enable THEN ctxRect ELSE NoRect

\* draw: ctx.DrawInstanced(4, pipeline.vertex_buffer.len as u32, 0, 0).
VertexCountPerInstance == 4
InstanceCount(b) == b.len

\* GlyphBrushBuilder::build.  With depth: () it is GlyphBrush::<(), F, H>::new
\* (device, filter, inner); with depth: D3D11_DEPTH_STENCIL_DESC it names
\* GlyphBrush::<D3D11_DEPTH_STENCIL_DESC, F, H>::new(device, filter, depth,
\* inner), a function the crate does not define, so no brush comes of it.
BuilderBuild(depth) == IF depth = "unit" THEN "idle" ELSE "nobrush"

\* ------------------------------------------------------------------- Init
\* GlyphBrush::new: the atlas is created at the engine's texture dimensions
\* (creation succeeded, so they are legal); texels of a texture created
\* without initial data are undefined.
Init ==
    /\ builder \in BuilderDepths
    /\ pc = BuilderBuild(builder)
    /\ queued = EmptyQueue
    /\ lastDraw = NoDraw
    /\ cpuDims \in {d \in Dims : CacheNewCanSucceed(d)}
    /\ cpuTex = BlankTex
    /\ gpuDims = cpuDims
    /\ gpuTex \in FreshTextures
    /\ vb = create_vertex_buffer(InitialCapacity)
    /\ transform = IDENTITY_MATRIX
    /\ transformBuf = IDENTITY_MATRIX
    /\ call = NoCall
    /\ obs = NoObs
    /\ uploaded = 0
    /\ conv = NoConv

\* The panic unwinds out of draw_queued*: the brush is not looked at again.
Unwind ==
    /\ queued' = EmptyQueue
    /\ lastDraw' = NoDraw
    /\ cpuDims' = NoDims
    /\ cpuTex' = BlankTex
    /\ gpuDims' = NoDims
    /\ gpuTex' = BlankTex
    /\ vb' = create_vertex_buffer(0)
    /\ uploaded' = 0
    /\ transform' = IDENTITY_MATRIX
    /\ transformBuf' = IDENTITY_MATRIX

\* ---------------------------------------------------------------- actions
\* GlyphBrush::queue: section g is queued for the next process_queued.
Queue(g) ==
    /\ pc = "idle"
    /\ g \notin queued
    /\ queued' = queued \cup {g}
    /\ obs' = NoObs
    /\ UNCHANGED <<buildVars, uploaded, pc, lastDraw, cpuDims, cpuTex, cacheVars, vb, transformVars, call>>

\* draw_queued_with_transform is entered (draw_queued enters it with
\* orthographic_projection(w, h)): process_queued starts.
DrawQueued ==
    /\ pc = "idle"
    /\ pc' = "process"
    /\ call' = NoCall
    /\ obs' = NoObs
    /\ UNCHANGED <<buildVars, uploaded, engineVars, cacheVars, vb, transformVars>>

\* glyph_brush's process_queued finds the queued sections equal to those of
\* its last Draw outcome: BrushAction::ReDraw.  process_queued returns Ok(())
\* without an upload.
EngineReDraw ==
    /\ pc = "process"
    /\ lastDraw = queued
    /\ queued' = EmptyQueue
    /\ call' = [call EXCEPT !.action = "ReDraw"]
    /\ pc' = MatchBrushAction("ReDraw")
    /\ UNCHANGED <<buildVars, uploaded, lastDraw, cpuDims, cpuTex, cacheVars, vb,
                   transformVars, obs>>

\* glyph_brush's process_queued caches every queued glyph, calls the update
\* callback for each region it has filled, and returns BrushAction::Draw.
EngineDraw ==
    /\ pc = "process"
    /\ lastDraw # queued
    /\ LET tex == CacheQueued(cpuTex, queued)
           filled == {s \in Slots : tex[s] # cpuTex[s]}
       IN  /\ cpuTex' = tex
           /\ gpuTex' = UploadRegions(gpuTex, tex, filled)
           /\ call' = [call EXCEPT !.action = "Draw",
                                   !.verts = DrawVerts(queued)]
    /\ lastDraw' = queued
    /\ queued' = EmptyQueue
    /\ pc' = MatchBrushAction("Draw")
    /\ UNCHANGED <<buildVars, uploaded, cpuDims, gpuDims, vb, transformVars, obs>>

\* glyph_brush's process_queued cannot fit a glyph it does not hold yet:
\* Err(BrushError::TextureTooSmall { suggested }), where the engine suggests
\* a texture larger than its own in both axes.  The sections stay queued.
EngineTooSmall(suggested) ==
    /\ pc = "process"
    /\ lastDraw # queued
    /\ queued \ CachedGlyphs(cpuTex) # {}
    /\ suggested[1] > cpuDims[1]
    /\ suggested[2] > cpuDims[2]
    /\ call' = [call EXCEPT !.suggested = suggested]
    /\ pc' = "resize"
    /\ UNCHANGED <<buildVars, uploaded, engineVars, cacheVars, vb, transformVars, obs>>

\* The TextureTooSmall arm when Cache::new succeeds: the atlas is replaced by
\* a new texture, the engine's draw cache is rebuilt at the new size (empty,
\* its last draw forgotten), and the loop runs again.
ResizeOk ==
    /\ pc = "resize"
    /\ LET new == NewSize(call.suggested, cpuDims)
           gpuSize == IncreaseCacheSizeArgs(new, call.suggested)
       IN  /\ CacheNewCanSucceed(gpuSize)
           /\ gpuDims' = gpuSize
           /\ gpuTex' \in FreshTextures
           /\ cpuDims' = ResizeTextureArgs(new, call.suggested)
           /\ obs' = [obs EXCEPT !.resized = TRUE,
                                 !.requested = gpuSize,
                                 !.clamped = (gpuSize # call.suggested)]
    /\ cpuTex' = BlankTex
    /\ lastDraw' = NoDraw
    /\ call' = [call EXCEPT !.suggested = NoDims]
    /\ pc' = "process"
    /\ UNCHANGED <<buildVars, uploaded, queued, vb, transformVars>>

\* The TextureTooSmall arm when Cache::new fails: increase_cache_size unwraps
\* the error, so the thread panics inside process_queued.
ResizeAllocFail ==
    /\ pc = "resize"
    /\ LET new == NewSize(call.suggested, cpuDims)
           gpuSize == IncreaseCacheSizeArgs(new, call.suggested)
       IN  obs' = [obs EXCEPT !.requested = gpuSize,
                              !.clamped = (gpuSize # call.suggested),
                              !.failedAt = "atlas",
                              !.result = increase_cache_size_failure]
    /\ pc' = IF increase_cache_size_failure = "panic" THEN "panicked" ELSE "idle"
    /\ call' = NoCall
    /\ UNCHANGED buildVars
    /\ IF increase_cache_size_failure = "panic"
       THEN Unwind
       ELSE UNCHANGED <<uploaded, engineVars, cacheVars, vb, transformVars>>

\* BrushAction::Draw(verts) => self.pipeline.upload(&verts), and the `?` or
\* the call of pipeline.draw that follows process_queued.
Upload(createOk, mapOk) ==
    /\ pc = "upload"
    /\ LET r == upload(vb, call.verts, createOk, mapOk)
       IN  /\ vb' = r.vb
           /\ pc' = DrawQueuedNext(r.res)
           /\ uploaded' = IF r.res = "ok" THEN call.verts.n ELSE uploaded
           /\ obs' = IF r.res = "ok"
                     THEN [obs EXCEPT !.created = r.created,
                                      !.uploads = obs.uploads + 1,
                                      !.vmaps = r.maps]
                     ELSE [NoObs EXCEPT !.result = "err", !.failedAt = r.res,
                                        !.created = r.created,
                                        !.uploads = obs.uploads + 1,
                                        !.vmaps = r.maps]
    /\ call' = NoCall
    /\ UNCHANGED <<buildVars, engineVars, cacheVars, transformVars>>

\* self.pipeline.draw(t, None) or self.pipeline.draw(t, Some(rect)), and the
\* return of its result to the caller.  ctxRect is the scissor rect the
\* immediate context, which the host shares, holds when the draw starts.
PipelineDraw(t, rect, ctxRect, mapOk) ==
    /\ pc = "draw"
    /\ LET r == draw(transform, transformBuf, t, mapOk)
       IN  /\ transform' = r.transform
           /\ transformBuf' = r.buf
           /\ obs' = [NoObs EXCEPT
                 !.arg = t,
                 !.rect = rect,
                 !.bound = r.bound,
                 !.depth = IF r.bound THEN PipelineDepthStencilState ELSE "none",
                 !.drew = r.drew,
                 !.scissor = IF r.drew
                             THEN ScissorTest(ScissorEnable,
                                              RSSetScissorRects(ctxRect, rect))
                             ELSE NoRect,
                 !.vertices = IF r.drew THEN VertexCountPerInstance ELSE 0,
                 !.instances = IF r.drew THEN InstanceCount(vb) ELSE 0,
                 !.tmaps = r.tmaps,
                 !.result = IF r.res = "ok" THEN "ok" ELSE "err",
                 !.failedAt = IF r.res = "ok" THEN "none" ELSE r.res]
    /\ pc' = "idle"
    /\ call' = NoCall
    /\ UNCHANGED <<buildVars, uploaded, engineVars, cacheVars, vb>>

Next ==
    \/ \E g \in Glyphs : Queue(g)
    \/ DrawQueued
    \/ EngineReDraw
    \/ EngineDraw
    \/ \E s \in Dims : EngineTooSmall(s)
    \/ ResizeOk
    \/ ResizeAllocFail
    \/ \E createOk \in BOOLEAN, mapOk \in BOOLEAN : Upload(createOk, mapOk)
    \/ \E t \in Transforms, rect \in Rects, ctxRect \in Rects, mapOk \in BOOLEAN :
            PipelineDraw(t, rect, ctxRect, mapOk)

Spec == Init /\ [][Next]_vars

\* A draw_queued* call is synchronous code: once entered it runs on until it
\* returns or panics.
CallStep ==
    \/ EngineReDraw
    \/ EngineDraw
    \/ \E s \in Dims : EngineTooSmall(s)
    \/ ResizeOk
    \/ ResizeAllocFail
    \/ \E createOk \in BOOLEAN, mapOk \in BOOLEAN : Upload(createOk, mapOk)
    \/ \E t \in Transforms, rect \in Rects, ctxRect \in Rects, mapOk \in BOOLEAN :
            PipelineDraw(t, rect, ctxRect, mapOk)

LiveSpec == Spec /\ WF_vars(CallStep)

\* ------------------------------------------- GlyphVertex to Vertex
\* Exact fractions <<numerator, denominator>> in lowest terms, denominator
\* positive: the values of the texture coordinates.
RECURSIVE Gcd(_, _)
Gcd(a, b) == IF b = 0 THEN a ELSE Gcd(b, a % b)
Abs(a) == IF a < 0 THEN -a ELSE a
Rat(n, d) ==
    LET g == Gcd(Abs(n), Abs(d))
        sgn == IF d < 0 THEN -1 ELSE 1
    IN  <<(sgn * n) \div g, (sgn * d) \div g>>
RatAdd(p, q) == Rat(p[1] * q[2] + q[1] * p[2], p[2] * q[2])
RatSub(p, q) == Rat(p[1] * q[2] - q[1] * p[2], p[2] * q[2])
RatMul(p, q) == Rat(p[1] * q[1], p[2] * q[2])
RatDiv(p, q) == Rat(p[1] * q[2], p[2] * q[1])

\* Rect::width and Rect::height.
width(r) == RatSub(r.max.x, r.min.x)
height(r) == RatSub(r.max.y, r.min.y)
RatLess(p, q) == p[1] * q[2] < q[1] * p[2]

\* The rectangles a GlyphVertex is drawn from: min below max on both axes.
Coords == {Rat(c, 1) : c \in 0..MaxCoord}
TexCoords == {Rat(t, MaxTex) : t \in 0..MaxTex}
RectsOver(S) ==
    {[min |-> [x |-> x0, y |-> y0], max |-> [x |-> x1, y |-> y1]] :
        x0 \in S, x1 \in S, y0 \in S, y1 \in S}
ProperRect(r) == RatLess(r.min.x, r.max.x) /\ RatLess(r.min.y, r.max.y)
GlyphVertices ==
    {[tex_coords |-> t, pixel_coords |-> p, bounds |-> b,
      extra |-> [z |-> Rat(0, 1), color |-> "color"]] :
        t \in {r \in RectsOver(TexCoords) : ProperRect(r)},
        p \in {r \in RectsOver(Coords) : ProperRect(r)},
        b \in {r \in RectsOver(Coords) : ProperRect(r)}}
NoVertex == <<>>

\* The four clips of From<GlyphVertex> for Vertex, in the order of the source;
\* g holds the mutable tex_coords and pixel_coords, and bounds.
ClipMaxX(g) ==
    IF RatLess(g.bounds.max.x, g.pixel_coords.max.x)
    THEN LET old_width == width(g.pixel_coords)
             pixel_coords == [g.pixel_coords EXCEPT !.max.x = g.bounds.max.x]
         IN  [g EXCEPT
                 !.pixel_coords = pixel_coords,
                 !.tex_coords.max.x =
                     RatAdd(g.tex_coords.min.x,
                            RatDiv(RatMul(width(g.tex_coords), width(pixel_coords)),
                                   old_width))]
    ELSE g

\* Faulty variant: the left clip moves the texture's left edge from itself, as
\* the right clip's formula would.
ClipMinX_FromMin(g) ==
    IF RatLess(g.pixel_coords.min.x, g.bounds.min.x)
    THEN LET old_width == width(g.pixel_coords)
             pixel_coords == [g.pixel_coords EXCEPT !.min.x = g.bounds.min.x]
         IN  [g EXCEPT
                 !.pixel_coords = pixel_coords,
                 !.tex_coords.min.x =
                     RatAdd(g.tex_coords.min.x,
                            RatDiv(RatMul(width(g.tex_coords), width(pixel_coords)),
                                   old_width))]
    ELSE g

ClipMinX(g) ==
    IF RatLess(g.pixel_coords.min.x, g.bounds.min.x)
    THEN LET old_width == width(g.pixel_coords)
             pixel_coords == [g.pixel_coords EXCEPT !.min.x = g.bounds.min.x]
         IN  [g EXCEPT
                 !.pixel_coords = pixel_coords,
                 !.tex_coords.min.x =
                     RatSub(g.tex_coords.max.x,
                            RatDiv(RatMul(width(g.tex_coords), width(pixel_coords)),
                                   old_width))]
    ELSE g

ClipMaxY(g) ==
    IF RatLess(g.bounds.max.y, g.pixel_coords.max.y)
    THEN LET old_height == height(g.pixel_coords)
             pixel_coords == [g.pixel_coords EXCEPT !.max.y = g.bounds.max.y]
         IN  [g EXCEPT
                 !.pixel_coords = pixel_coords,
                 !.tex_coords.max.y =
                     RatAdd(g.tex_coords.min.y,
                            RatDiv(RatMul(height(g.tex_coords), height(pixel_coords)),
                                   old_height))]
    ELSE g

ClipMinY(g) ==
    IF RatLess(g.pixel_coords.min.y, g.bounds.min.y)
    THEN LET old_height == height(g.pixel_coords)
             pixel_coords == [g.pixel_coords EXCEPT !.min.y = g.bounds.min.y]
         IN  [g EXCEPT
                 !.pixel_coords = pixel_coords,
                 !.tex_coords.min.y =
                     RatSub(g.tex_coords.max.y,
                            RatDiv(RatMul(height(g.tex_coords), height(pixel_coords)),
                                   old_height))]
    ELSE g

\* From<GlyphVertex> for Vertex.
from(gv) ==
    LET g == ClipMinY(ClipMaxY(ClipMinX(ClipMaxX(gv))))
    IN  [left_top |-> <<g.pixel_coords.min.x, g.pixel_coords.max.y, g.extra.z>>,
         right_bottom |-> <<g.pixel_coords.max.x, g.pixel_coords.min.y>>,
         tex_left_top |-> <<g.tex_coords.min.x, g.tex_coords.max.y>>,
         tex_right_bottom |-> <<g.tex_coords.max.x, g.tex_coords.min.y>>,
         color |-> g.extra.color]

\* A glyph vertex that the layout engine hands to the brush's conversion.
ConvInit ==
    /\ conv \in {[gv |-> gv, vertex |-> NoVertex] : gv \in GlyphVertices}
    /\ builder = "unit"
    /\ pc = BuilderBuild(builder)
    /\ queued = EmptyQueue
    /\ lastDraw = NoDraw
    /\ cpuDims = <<MaxImageDimension, MaxImageDimension>>
    /\ cpuTex = BlankTex
    /\ gpuDims = cpuDims
    /\ gpuTex = BlankTex
    /\ vb = create_vertex_buffer(InitialCapacity)
    /\ transform = IDENTITY_MATRIX
    /\ transformBuf = IDENTITY_MATRIX
    /\ call = NoCall
    /\ obs = NoObs
    /\ uploaded = 0

\* Vertex::from(glyph_vertex), as process_queued's to_vertex does.
Convert ==
    /\ conv.vertex = NoVertex
    /\ conv' = [conv EXCEPT !.vertex = from(conv.gv)]
    /\ UNCHANGED <<pc, engineVars, cacheVars, vb, transformVars, call, obs,
                   builder, uploaded>>

ConvNext == Convert

ConvSpec == ConvInit /\ [][ConvNext]_vars

\* ------------------------------------------------------------------ claims
\* The records a draw reads: the first vb.len records of the vertex buffer.
DrawnRecords == vb.refs

\* C1: at every draw call, for every glyph record in the vertex buffer being
\* drawn, the GPU atlas texels inside the record's texture rectangle equal the
\* layout engine's texels for the same rectangle.
C1_DrawnGlyphTexelsMatch ==
    (pc = "idle" /\ obs.drew) =>
        \A r \in DrawnRecords : gpuTex[r[2]] = cpuTex[r[2]]

WithinMax(d) == d[1] <= MaxImageDimension /\ d[2] <= MaxImageDimension
Enlarged(new, old) == new[1] >= old[1] /\ new[2] >= old[2] /\ new # old
InLoop == pc \in {"process", "resize"}

\* C2: when the queued glyphs overflow the atlas, process_queued leaves its
\* resize-retry loop: every resize enlarges the atlas and keeps it within the
\* device maximum, the outcome after a resize is a Draw with a record for
\* every queued glyph, a successful return has uploaded all of them, and the
\* loop always ends (with that Draw, or with the failed allocation).
C2_ResizeLoopEnds ==
    /\ [][(pc = "resize" /\ pc' = "process") =>
            (Enlarged(gpuDims', gpuDims) /\ WithinMax(gpuDims'))]_vars
    /\ [][(pc = "process" /\ obs.resized /\ pc' \notin {"process", "resize"}) =>
            /\ pc' = "upload"
            /\ {r[1] : r \in call'.verts.refs} = queued
            /\ call'.verts.n = Instances(queued)]_vars
    /\ [][(pc = "upload" /\ obs.resized /\ pc' = "draw") =>
            (vb'.len = call.verts.n /\ vb'.refs = call.verts.refs)]_vars
    /\ [](InLoop => <>(~InLoop))
    /\ []((~InLoop /\ obs.resized) =>
            \/ pc \in {"upload", "draw"}
            \/ (pc = "panicked" /\ obs.failedAt = "atlas"))

C2_OverflowDrawn ==
    /\ pc = "draw"
    /\ obs.resized
    /\ vb.len = InitialCapacity + 1
    /\ {r[1] : r \in vb.refs} = Glyphs

\* C3: if the allocation of the new atlas fails in the TextureTooSmall arm,
\* the draw_queued* call returns an error value, issues no draw, and the
\* brush can be used again.
C3_AllocFailurePropagates ==
    obs.failedAt = "atlas" =>
        (obs.result = "err" /\ pc = "idle" /\ ~obs.drew)

\* C4: on TextureTooSmall(suggested) the new size is (max, max) exactly when
\* suggested exceeds max in some axis and the current atlas is below max in
\* some axis, and suggested otherwise; that size goes to Cache::new and, when
\* the texture is created, to the engine as well.
C4_NewSizeChoice ==
    [][pc = "resize" =>
        LET s == call.suggested
            clamp == /\ (s[1] > MaxImageDimension \/ s[2] > MaxImageDimension)
                     /\ (cpuDims[1] < MaxImageDimension
                         \/ cpuDims[2] < MaxImageDimension)
            want == IF clamp
                    THEN <<MaxImageDimension, MaxImageDimension>>
                    ELSE s
        IN  /\ obs'.requested = want
            /\ pc' = "process" => (gpuDims' = want /\ cpuDims' = want)]_vars

C4_ClampedToMax ==
    /\ pc = "process"
    /\ obs.resized
    /\ obs.clamped
    /\ gpuDims = <<MaxImageDimension, MaxImageDimension>>

\* C5 as stated: every size requested of Cache::new by a resize is within
\* the device maximum.
C5_RequestWithinMax == WithinMax(obs.requested)

\* C5, amended: the atlas (GPU texture and engine) is within the device
\* maximum in every state; a resize request exceeds the maximum only when
\* the atlas is already at the maximum in both axes, it is the engine's
\* suggestion verbatim, and no atlas of that size comes to exist.
C5_AtlasWithinMax ==
    /\ [](WithinMax(gpuDims) /\ WithinMax(cpuDims))
    /\ [][(pc = "resize" /\ ~WithinMax(obs'.requested)) =>
            /\ gpuDims = <<MaxImageDimension, MaxImageDimension>>
            /\ cpuDims = <<MaxImageDimension, MaxImageDimension>>
            /\ obs'.requested = call.suggested
            /\ pc' # "process"]_vars

C5_OversizeRequested ==
    /\ pc = "panicked"
    /\ obs.failedAt = "atlas"
    /\ ~WithinMax(obs.requested)

\* C6: whenever the engine's processing step is about to run (first attempt
\* and every retry) and whenever a draw call is issued, the GPU atlas has the
\* engine's texture dimensions.
C6_DimsAgree ==
    (pc \in {"process", "upload", "draw"} \/ (pc = "idle" /\ obs.drew)) =>
        gpuDims = cpuDims

C6_RetryAfterResize ==
    /\ pc = "process"
    /\ obs.resized
    /\ gpuDims = cpuDims
    /\ gpuDims = obs.requested

\* C7: the pipeline draw is invoked only after process_queued has returned
\* Ok with its upload done; when process_queued returns an error the draw is
\* not invoked and the call returns the error.
C7_ProcessBeforeDraw ==
    /\ [](pc = "draw" =>
            (obs.failedAt = "none" /\ obs.result = "none"
             /\ call.verts = NoVerts /\ ~obs.drew))
    /\ [](obs.failedAt \in {"vbcreate", "vbmap"} =>
            (pc = "idle" /\ obs.result = "err" /\ ~obs.drew))
    /\ [][(~obs.drew /\ obs'.drew) => (pc = "draw" /\ pc' = "idle")]_vars

C7_ProcessFailedNoDraw ==
    /\ pc = "idle"
    /\ obs.failedAt = "vbmap"
    /\ obs.result = "err"
    /\ ~obs.drew

\* f32 equality of two matrices: the same elements, none of them a NaN.
F32Equal(a, b) == a = b /\ a # "nan"

\* C8: a draw whose transform equals the last uploaded one (at first the
\* identity) does not map the transform buffer and still issues the draw; a
\* draw whose transform differs maps and rewrites the buffer once, then draws.
C8_TransformUploadSkipped ==
    [][pc = "draw" =>
        IF F32Equal(obs'.arg, transformBuf)
        THEN obs'.tmaps = 0 /\ obs'.drew /\ transformBuf' = transformBuf
        ELSE /\ obs'.drew => (obs'.tmaps = 1 /\ transformBuf' = obs'.arg)
             /\ ~obs'.drew => (obs'.failedAt = "tmap"
                               /\ transformBuf' = transformBuf)]_vars

C8_SameTransformRedrawn ==
    /\ pc = "idle"
    /\ obs.drew
    /\ obs.tmaps = 0
    /\ obs.arg = "ortho"
    /\ transformBuf = "ortho"

\* C9: the capacity of the vertex buffer never decreases; an upload of fewer
\* records than the buffer holds keeps the buffer object and its capacity,
\* and sets the logical length to the new count.
C9_CapacityNeverShrinks ==
    /\ [][pc' # "panicked" => vb'.capacity >= vb.capacity]_vars
    /\ [][(pc = "upload" /\ call.verts.n < vb.len) =>
            /\ ~obs'.created
            /\ vb'.capacity = vb.capacity
            /\ pc' = "draw" => vb'.len = call.verts.n]_vars

C9_SmallerUploadReuses ==
    /\ pc = "draw"
    /\ ~obs.created
    /\ vb.capacity = InitialCapacity + 1
    /\ vb.len = 1

\* C10: upload replaces the buffer exactly when the record count exceeds the
\* capacity (and CreateBuffer succeeds); the new capacity is the record
\* count; an upload of at most 1024 records never replaces the buffer.
C10_ExactGrowth ==
    [][pc = "upload" =>
        LET n == call.verts.n
        IN  /\ obs'.created => (n > vb.capacity /\ vb'.capacity = n)
            /\ ~obs'.created => vb'.capacity = vb.capacity
            /\ n > vb.capacity => (obs'.created \/ obs'.failedAt = "vbcreate")
            /\ n <= InitialCapacity => ~obs'.created]_vars

C10_GrownToCount ==
    /\ pc = "draw"
    /\ obs.created
    /\ vb.capacity = InitialCapacity + 1
    /\ vb.len = InitialCapacity + 1

\* C11: an upload of an empty record sequence sets the logical length to 0,
\* succeeds whatever the driver would answer, and does not touch the GPU: no
\* CreateBuffer, no Map, the buffer object, its capacity and what was written
\* into it unchanged.
C11_EmptyUploadNoGpu ==
    [][(pc = "upload" /\ call.verts.n = 0) =>
        /\ vb'.len = 0
        /\ pc' = "draw"
        /\ obs'.failedAt = "none"
        /\ obs'.result = "none"
        /\ ~obs'.created
        /\ obs'.vmaps = 0
        /\ vb'.capacity = vb.capacity
        /\ vb'.written = vb.written]_vars

C11_EmptyAfterFull ==
    /\ pc = "draw"
    /\ obs.uploads = 1
    /\ obs.vmaps = 0
    /\ vb.len = 0
    /\ vb.written = InitialCapacity + 1
    /\ vb.capacity = InitialCapacity + 1

\* C13: when the engine's final outcome is ReDraw, process_queued makes no
\* upload, leaves the vertex buffer as it was and returns Ok (the draw
\* follows); when it is Draw(vertices), exactly one upload, of those vertices,
\* is made, after the retry loop has been left.
C13_ReDrawNoUpload ==
    /\ [][(pc = "process" /\ call'.action = "ReDraw") =>
            /\ pc' = "draw"
            /\ vb' = vb
            /\ obs'.uploads = 0
            /\ obs'.vmaps = 0
            /\ obs'.failedAt = "none"]_vars
    /\ [][(pc = "process" /\ call'.action = "Draw") =>
            (pc' = "upload" /\ obs'.uploads = 0)]_vars
    /\ [][pc = "upload" =>
            /\ call.action = "Draw"
            /\ obs.uploads = 0
            /\ obs'.uploads = 1
            /\ pc' \in {"draw", "idle"}
            /\ pc' = "draw" => (vb'.len = call.verts.n
                                /\ vb'.refs = call.verts.refs)]_vars
    /\ [][pc = "draw" => obs'.uploads = 0]_vars

C13_ReDrawKeepsBuffer ==
    /\ pc = "draw"
    /\ call.action = "ReDraw"
    /\ obs.uploads = 0
    /\ vb.len = InitialCapacity + 1

\* C19: in every reachable state the logical length of the vertex buffer is
\* at most its capacity, whatever uploads succeeded or failed before.
C19_LenWithinCapacity == vb.len <= vb.capacity

C19_FailedGrowthKeepsLen ==
    /\ pc = "idle"
    /\ obs.failedAt = "vbcreate"
    /\ vb.len = InitialCapacity
    /\ vb.capacity = InitialCapacity

\* C20: in every reachable state the logical length of the vertex buffer is
\* at most the number of records written into the current buffer object: a
\* new buffer has length 0 until its Map and copy have succeeded.
C20_LenWithinWritten == vb.len <= vb.written

C20_NewBufferUnwritten ==
    /\ pc = "idle"
    /\ obs.failedAt = "vbmap"
    /\ obs.created
    /\ vb.written = 0
    /\ vb.len = 0
    /\ vb.capacity = InitialCapacity + 1

\* C12: every successful draw_queued* call issues one instanced draw of 4
\* vertices per instance whose instance count is the logical length of the
\* vertex buffer, and that length is the record count of the most recent Draw
\* outcome whose upload succeeded (0 if there was none or it was empty).
C12_InstanceCountIsLastUpload ==
    (pc = "idle" /\ obs.result = "ok") =>
        /\ obs.drew
        /\ obs.vertices = 4
        /\ obs.instances = vb.len
        /\ obs.instances = uploaded

\* C14: the scissor test is active for a draw exactly when a scissor rect is
\* given to it: a draw given a rect is clipped to that rect, a draw given none
\* is not clipped, whatever rect the context held before.
C14_ScissorIffRect ==
    (pc = "idle" /\ obs.drew) => obs.scissor = obs.rect

\* C15: the depth/stencil state the pipeline binds at a draw is the caller's
\* description when the builder was given one by depth_stencil_state, and the
\* disabled-depth-test state otherwise; a brush asked of a builder with a
\* description is built and can draw.
C15_DepthStateAsConfigured ==
    /\ pc # "nobrush"
    /\ obs.bound => obs.depth = IF builder = "desc" THEN "desc" ELSE "disabled"

\* C17: the pipeline draw fails only at the Map of the transform buffer: a
\* draw whose transform equals the last uploaded one succeeds, and when the
\* Map fails the error is returned with no state bound and no draw issued.
C17_DrawFailsOnlyAtMap ==
    [][pc = "draw" =>
        /\ obs'.result \in {"ok", "err"}
        /\ obs'.result = "err" =>
              /\ obs'.failedAt = "tmap"
              /\ ~F32Equal(obs'.arg, transformBuf)
              /\ ~obs'.bound
              /\ ~obs'.drew
              /\ pc' = "idle"
        /\ obs'.result = "ok" => (obs'.bound /\ obs'.drew)
        /\ F32Equal(obs'.arg, transformBuf) => obs'.result = "ok"]_vars

C17_MapFailedNothingBound ==
    /\ pc = "idle"
    /\ obs.result = "err"
    /\ obs.failedAt = "tmap"
    /\ ~obs.bound
    /\ ~obs.drew

\* C18: in every reachable state the transform remembered by the pipeline is
\* the matrix held in the transform constant buffer: both the identity after
\* construction, both changed by a successful re-upload, both unchanged by a
\* failed Map, so that a later draw with the same transform maps again.
C18_TransformIsBuffer ==
    /\ [](transform = transformBuf)
    /\ [][(pc = "draw" /\ obs'.tmaps = 1) =>
            (transform' = obs'.arg /\ transformBuf' = obs'.arg)]_vars
    /\ [][(pc = "draw" /\ obs'.failedAt = "tmap") =>
            /\ transform' = transform
            /\ transformBuf' = transformBuf
            /\ TransformNe(obs'.arg, transform')]_vars

C18_FailedMapKeepsBoth ==
    /\ pc = "idle"
    /\ obs.failedAt = "tmap"
    /\ obs.arg = "identity"
    /\ transform = "ortho"
    /\ transformBuf = "ortho"

\* C16: converting a glyph vertex whose pixel rectangle overlaps its bounds:
\* on each side where the pixel rectangle exceeds the bounds the pixel
\* coordinate becomes the bound, on each side where it does not the pixel and
\* the texture coordinate are unchanged, and on each axis the texture extent
\* shrinks in the ratio of the pixel extent (new_tex * old_pixel = old_tex *
\* new_pixel); so a glyph inside its bounds is converted unchanged.
Overlaps(p, b) ==
    /\ RatLess(p.min.x, b.max.x) /\ RatLess(b.min.x, p.max.x)
    /\ RatLess(p.min.y, b.max.y) /\ RatLess(b.min.y, p.max.y)
ClippedRects(v) ==
    [pixel |-> [min |-> [x |-> v.left_top[1], y |-> v.right_bottom[2]],
                max |-> [x |-> v.right_bottom[1], y |-> v.left_top[2]]],
     tex |-> [min |-> [x |-> v.tex_left_top[1], y |-> v.tex_right_bottom[2]],
              max |-> [x |-> v.tex_right_bottom[1], y |-> v.tex_left_top[2]]]]
C16_ClipShrinksTexture ==
    (conv # NoConv /\ conv.vertex # NoVertex
        /\ Overlaps(conv.gv.pixel_coords, conv.gv.bounds)) =>
        LET p == conv.gv.pixel_coords
            t == conv.gv.tex_coords
            b == conv.gv.bounds
            np == ClippedRects(conv.vertex).pixel
            nt == ClippedRects(conv.vertex).tex
        IN  /\ IF RatLess(b.max.x, p.max.x)
               THEN np.max.x = b.max.x
               ELSE np.max.x = p.max.x /\ nt.max.x = t.max.x
            /\ IF RatLess(p.min.x, b.min.x)
               THEN np.min.x = b.min.x
               ELSE np.min.x = p.min.x /\ nt.min.x = t.min.x
            /\ IF RatLess(b.max.y, p.max.y)
               THEN np.max.y = b.max.y
               ELSE np.max.y = p.max.y /\ nt.max.y = t.max.y
            /\ IF RatLess(p.min.y, b.min.y)
               THEN np.min.y = b.min.y
               ELSE np.min.y = p.min.y /\ nt.min.y = t.min.y
            /\ RatMul(width(nt), width(p)) = RatMul(width(t), width(np))
            /\ RatMul(height(nt), height(p)) = RatMul(height(t), height(np))
            /\ conv.vertex.left_top[3] = conv.gv.extra.z
            /\ conv.vertex.color = conv.gv.extra.color

\* A glyph clipped on the left, the right and the bottom, not on the top.
C16_ClippedOnThreeSides ==
    /\ conv # NoConv
    /\ conv.vertex # NoVertex
    /\ Overlaps(conv.gv.pixel_coords, conv.gv.bounds)
    /\ RatLess(conv.gv.bounds.max.x, conv.gv.pixel_coords.max.x)
    /\ RatLess(conv.gv.pixel_coords.min.x, conv.gv.bounds.min.x)
    /\ RatLess(conv.gv.bounds.max.y, conv.gv.pixel_coords.max.y)
    /\ conv.gv.pixel_coords.min.y = conv.gv.bounds.min.y
    /\ width(ClippedRects(conv.vertex).tex) # width(conv.gv.tex_coords)
    /\ height(ClippedRects(conv.vertex).tex) # height(conv.gv.tex_coords)

\* C21: an upload that fails at CreateBuffer returns the error and leaves the
\* vertex buffer as it was (the same buffer object, capacity, logical length
\* and contents); an upload that fails at Map without having replaced the
\* buffer returns the error and leaves capacity and logical length as they
\* were.  CreateBuffer is only tried, and so can only fail, when the record
\* count exceeds the capacity.
C21_FailedUploadKeepsBuffer ==
    [][pc = "upload" =>
        /\ obs'.failedAt = "vbcreate" =>
               /\ obs'.result = "err"
               /\ pc' = "idle"
               /\ call.verts.n > vb.capacity
               /\ ~obs'.created
               /\ obs'.vmaps = 0
               /\ vb' = vb
        /\ (obs'.failedAt = "vbmap" /\ ~obs'.created) =>
               /\ obs'.result = "err"
               /\ pc' = "idle"
               /\ vb'.capacity = vb.capacity
               /\ vb'.len = vb.len]_vars

\* The Map of an upload of a whole buffer's worth of records failed after a
\* one-record upload had succeeded: the buffer was not replaced and its
\* length is still 1.
C21_MapFailedLenKept ==
    /\ pc = "idle"
    /\ obs.failedAt = "vbmap"
    /\ ~obs.created
    /\ vb.len = 1
    /\ vb.capacity = InitialCapacity
    /\ queued = EmptyQueue
    /\ lastDraw = {2}

====
